---- MODULE Spec2Model ----
(***************************************************************************)
(* Professor Agent: the LangGraph workflow of src/app/graph.py driven by   *)
(* the interactive CLI of src/main.py.                                     *)
(*                                                                         *)
(* st            the checkpointed LearningState (one session, one thread)  *)
(* next          the node the compiled graph will run next                 *)
(* run           status of the graph run: idle / running / interrupted /   *)
(*               ended / failed                                            *)
(* last          the node that completed most recently                     *)
(* pass          the lesson nodes completed since the last Advance, Repeat *)
(*               or plan generation (history)                              *)
(* current_state, is_first_run, dpc   locals and position of               *)
(*               run_learning_session                                      *)
(* store         the checkpoints the checkpointer holds for the threads of *)
(*               src/scripts/test_main.py, by thread id                    *)
(*                                                                         *)
(* Spec          the CLI session of main.py                                *)
(* SpecRestart   the same with persistence: Ctrl-C and a new process       *)
(* SpecQuiz      process_quiz_answers applied to drawn quizzes and answers *)
(* SpecSessions  two threads of test_main.py on one checkpointer           *)
(*                                                                         *)
(* Strings whose characters matter are sequences of one-character strings; *)
(* weak points, key concepts and question texts are such strings.          *)
(* The messages list is kept as the tags of its last human message and of  *)
(* its last message, which is all the nodes ever read of it.               *)
(***************************************************************************)
EXTENDS Integers, Sequences, FiniteSets, TLC

VARIABLES st, next, run, last, pass, current_state, is_first_run, dpc, store

vars ==
  <<st, next, run, last, pass, current_state, is_first_run, dpc, store>>

(* ------------------------------ bounds --------------------------------- *)

\* largest plan the curriculum collaborator returns in the model
MaxLessons == 5

\* Repeat is not taken once attempt_count has reached this value
MaxAttempts == 2

\* the same for the first lesson of the plan, where the repeats go on past
\* the largest attempt_count of the ProgressDecision schema
MaxAttemptsFirst == 4

\* the longest run of blanks put before and after an answer text
MaxPad == 1

\* super-steps modelled of one thread
MaxSessionSteps == 6

(* ------------------------- program constants --------------------------- *)

\* LearningPlan.lessons min_length
MinLessons == 5

\* weak_points[:3] in process_quiz_answers
WeakPointCap == 3

\* ProgressDecision.attempt_count: le=3
AttemptCap == 3

\* Quiz.questions min_length = max_length
QuizLength == 5

\* question.question[:50] in process_quiz_answers
WeakPointChars == 50

\* Optional[T]: None is the empty sequence, a value v is <<v>>
None == <<>>

Some(v) == <<v>>

ERROR_MSG == "I couldn't understand your request."

\* LangGraph's END
END == "__end__"

Nodes ==
  { "extract", "check_extraction", "request_new_query", "generate_plan",
    "check_progress", "lecture", "quiz", "process_quiz", "assignment",
    "grade", "advance", "repeat" }

\* mutant: the graph is compiled without interrupt_before
interrupt_before_none == { }

\* graph.compile(interrupt_before=..., interrupt_after=...)
interrupt_before == { "request_new_query" }

\* mutant: the quiz is no longer a pause boundary
interrupt_after_assignment_only == { "assignment" }

interrupt_after == { "quiz", "assignment" }

(* --------------------------- string helpers ---------------------------- *)

LowerLetters ==
  <<"a", "b", "c", "d", "e", "f", "i", "l", "o", "r", "s", "t", "u", "x">>

UpperLetters ==
  <<"A", "B", "C", "D", "E", "F", "I", "L", "O", "R", "S", "T", "U", "X">>

UpperChar(c) ==
  IF \E i \in 1..Len(LowerLetters) : LowerLetters[i] = c
  THEN UpperLetters[CHOOSE i \in 1..Len(LowerLetters) : LowerLetters[i] = c]
  ELSE c

LowerChar(c) ==
  IF \E i \in 1..Len(UpperLetters) : UpperLetters[i] = c
  THEN LowerLetters[CHOOSE i \in 1..Len(UpperLetters) : UpperLetters[i] = c]
  ELSE c

\* str.upper()
Upper(s) == [i \in 1..Len(s) |-> UpperChar(s[i])]

\* str.lower()
Lower(s) == [i \in 1..Len(s) |-> LowerChar(s[i])]

RECURSIVE LStrip(_)
LStrip(s) == IF s # <<>> /\ Head(s) = " " THEN LStrip(Tail(s)) ELSE s

RECURSIVE RStrip(_)
RStrip(s) ==
  IF s # <<>> /\ s[Len(s)] = " " THEN RStrip(SubSeq(s, 1, Len(s) - 1)) ELSE s

\* str.strip()
Strip(s) == RStrip(LStrip(s))

\* sub in s
Contains(s, sub) ==
  \E i \in 1..(Len(s) - Len(sub) + 1) : SubSeq(s, i, i + Len(sub) - 1) = sub

\* seq[:n]
Take(seq, n) == SubSeq(seq, 1, IF Len(seq) < n THEN Len(seq) ELSE n)

\* mutant: the question text is kept whole
First50_whole(text) == text

\* question.question[:50]
First50(text) == Take(text, WeakPointChars)

S_failed == <<"f", "a", "i", "l", "e", "d">>

S_failed_to_detect ==
  S_failed \o <<" ", "t", "o", " ", "d", "e", "t", "e", "c", "t">>

S_true == <<"t", "r", "u", "e">>

(* --------------------- messages (add_messages) ------------------------- *)

HumanMessage(content) == [type |-> "human", content |-> content]

\* create_ai_message
create_ai_message(content) == [type |-> "ai", content |-> content]

human_messages(msgs) == SelectSeq(msgs, LAMBDA m : m.type = "human")

\* what is kept of a message list: its last human message and its last message
NormMessages(msgs) ==
  LET humans == human_messages(msgs)
      lastMsg == msgs[Len(msgs)]
  IN  IF msgs = <<>> THEN <<>>
      ELSE IF lastMsg.type = "human" THEN <<lastMsg>>
      ELSE IF humans # <<>> THEN <<humans[Len(humans)], lastMsg>>
      ELSE <<lastMsg>>

\* the reducer of the messages channel
add_messages(left, right) == NormMessages(left \o right)

(* --------------------- collaborator outputs ---------------------------- *)

S_ai == <<"a", "i">>

S_beginner == <<"x">>

\* a topic that names a failure: "ai failed"
S_ai_failed == S_ai \o <<" ">> \o S_failed

\* what extract_topic_and_background can return for topic and background
Extractions ==
  { [topic |-> S_ai, background |-> S_beginner],
    [topic |-> S_failed_to_detect, background |-> S_failed_to_detect],
    [topic |-> S_ai, background |-> <<>>],
    [topic |-> S_ai_failed, background |-> S_beginner] }

\* the name of a concept
Concept(letter, digit) == <<letter, digit>>

KeyConceptChoices ==
  { <<Concept("k", "1"), Concept("k", "2")>>,
    <<Concept("k", "1"), Concept("k", "2"), Concept("k", "3"),
      Concept("k", "4")>> }

\* Lesson
Lesson(i, kc) == [lesson_number |-> i, key_concepts |-> kc]

\* LearningPlan: between MinLessons and MaxLessons lessons
Plans ==
  { [lessons |-> [i \in 1..n |-> Lesson(i, kc)]] :
      n \in MinLessons..MaxLessons, kc \in KeyConceptChoices }

\* a question text of n characters that starts with the character tag
QuestionText(tag, n) == <<tag>> \o [i \in 1..(n - 1) |-> "."]

MultipleChoiceQuestion(text, correct) ==
  [type |-> "multiple_choice", question |-> text, correct_answer |-> correct,
   options |-> <<"A", "B", "C", "D">>]

TrueFalseQuestion(text, correct) ==
  [type |-> "true_false", question |-> text, correct_answer |-> correct]

ShortAnswerQuestion(text) ==
  [type |-> "short_answer", question |-> text, correct_answer |-> <<"x">>,
   key_points |-> <<"p1">>]

\* Quiz: exactly 5 questions of mixed types
Quizzes ==
  { [questions |->
       << MultipleChoiceQuestion(QuestionText("1", 2), <<"A">>),
          TrueFalseQuestion(QuestionText("2", 53), TRUE),
          ShortAnswerQuestion(QuestionText("3", 2)),
          MultipleChoiceQuestion(QuestionText("4", 51), <<"b", " ">>),
          TrueFalseQuestion(QuestionText("5", 50), FALSE) >>],
    [questions |->
       << TrueFalseQuestion(QuestionText("6", 2), TRUE),
          MultipleChoiceQuestion(QuestionText("7", 2), <<"C">>),
          MultipleChoiceQuestion(QuestionText("8", 51), <<"D">>),
          TrueFalseQuestion(QuestionText("9", 2), FALSE),
          MultipleChoiceQuestion(QuestionText("0", 2), <<"A">>) >>] }

\* a question whose type is no member of QuestionType: the else branch of
\* process_quiz_answers
UnknownQuestion(text) ==
  [type |-> "essay", question |-> text, correct_answer |-> <<"A">>]

\* a quiz that did not pass the Quiz schema: one of its questions is of a
\* kind process_quiz_answers does not know
UnvalidatedQuizzes ==
  { [questions |->
       << MultipleChoiceQuestion(QuestionText("p", 2), <<"A">>),
          UnknownQuestion(QuestionText("q", 52)),
          TrueFalseQuestion(QuestionText("r", 2), TRUE),
          TrueFalseQuestion(QuestionText("s", 2), FALSE),
          MultipleChoiceQuestion(QuestionText("t", 2), <<"D">>) >>] }

\* answers of the learner: a dict from question index i (key "q<i>") to text
AnswerDicts ==
  { (0 :> <<"A">>) @@ (1 :> <<"T", "r", "u", "e">>) @@ (2 :> <<"x">>)
      @@ (3 :> <<"B">>) @@ (4 :> <<"F", "a", "l", "s", "e">>),
    (0 :> <<"T", "r", "u", "e">>) @@ (1 :> <<"C">>) @@ (2 :> <<"D">>)
      @@ (3 :> <<"F", "a", "l", "s", "e">>) @@ (4 :> <<"A">>),
    (0 :> <<"B">>) @@ (1 :> <<"F", "a", "l", "s", "e">>) @@ (2 :> <<"x">>)
      @@ (3 :> <<"A">>) @@ (4 :> <<"T", "r", "u", "e">>),
    (0 :> <<"F", "a", "l", "s", "e">>) @@ (1 :> <<"A">>) @@ (2 :> <<"A">>)
      @@ (3 :> <<"T", "r", "u", "e">>) @@ (4 :> <<"B">>) }

\* what parse_quiz_answers can return from a free-text message
ParsedAnswerDicts ==
  AnswerDicts \cup { <<>>, (0 :> <<" ", "a", " ">>) @@ (1 :> <<"t", "r", "u", "e">>) }

\* submissions typed at the CLI (handle_assignment never returns an empty one)
CliSubmissions == { <<"x">>, <<"s", "x">> }

\* what parse_assignment_submission can return from a free-text message
ParsedSubmissions == { <<>>, <<" ">>, <<"x">> }

\* GradingResult.score is a float: it is held in tenths of a point
ScoreScale == 10

\* mutant: the score is stored as the collaborator gave it
int_score_unconverted(score) == score

\* int(grading_result.score): truncation toward zero of a score >= 0
int_score(score) == score \div ScoreScale

\* GradingResult (score 100.0, 72.5 and 40.0)
GradingResults ==
  { [score |-> 1000, weak_points |-> <<>>],
    [score |-> 725, weak_points |-> <<Concept("w", "1")>>],
    [score |-> 400,
     weak_points |-> <<Concept("w", "1"), Concept("w", "2"),
                       Concept("w", "3"), Concept("w", "4")>>] }

\* Decision
Decisions == { "advance", "repeat" }

\* what the progress-decision collaborator can answer; only a member of
\* Decision passes the ProgressDecision schema
DecisionValues == Decisions \cup { "skip" }

(* ----------------------------- LearningState --------------------------- *)

Fields ==
  { "messages", "query", "topic", "background", "learning_plan",
    "current_lesson_idx", "lecture_content", "quiz_results", "quiz_score",
    "quiz_answers", "assignment", "assignment_submission",
    "assignment_score", "grading_result", "weak_points", "attempt_count",
    "message", "completed", "waiting_for_input", "input_type" }

\* main(): initial_state, in which the graph finds no query and the given
\* messages
initial_state(topic, background, messages) ==
  [ messages |-> messages,
    query |-> "",
    topic |-> topic,
    background |-> background,
    learning_plan |-> None,
    current_lesson_idx |-> 0,
    lecture_content |-> None,
    quiz_results |-> None,
    quiz_score |-> 0,
    quiz_answers |-> None,
    assignment |-> None,
    assignment_submission |-> <<>>,
    assignment_score |-> 0,
    grading_result |-> None,
    weak_points |-> <<>>,
    attempt_count |-> 0,
    message |-> "",
    completed |-> FALSE,
    waiting_for_input |-> FALSE,
    input_type |-> "None" ]

\* len(learning_plan.lessons)
NumLessons(state) == Len(state.learning_plan[1].lessons)

\* learning_plan.lessons[state['current_lesson_idx']]
current_lesson(state) ==
  state.learning_plan[1].lessons[state.current_lesson_idx + 1]

\* the index is inside the list (no IndexError)
IndexInRange(state) ==
  /\ state.learning_plan # None
  /\ state.current_lesson_idx < NumLessons(state)

(* ------------------------------- nodes --------------------------------- *)
(* Each node is the dict it returns, {**state, ...}; its "messages" entry  *)
(* is merged into the channel by add_messages when the engine commits it.  *)

\* the query extract_topic_and_background_node settles on
resolved_query(state) ==
  IF state.query = "" /\ state.messages # <<>>
  THEN state.messages[Len(state.messages)].content
  ELSE state.query

\* inputs: what extract_topic_and_background returned
extract_topic_and_background_node(state, inputs) ==
  LET query == resolved_query(state)
  IN  IF query = ""
      THEN [state EXCEPT !.query = "",
                         !.topic = S_failed_to_detect,
                         !.background = S_failed_to_detect,
                         !.waiting_for_input = FALSE]
      ELSE [state EXCEPT !.query = query,
                         !.topic = inputs.topic,
                         !.background = inputs.background,
                         !.waiting_for_input = FALSE]

failed_values == { S_failed_to_detect, S_failed }

\* not text or any(fail in text.lower() for fail in failed_values)
text_failed(text) ==
  \/ text = <<>>
  \/ \E fail \in failed_values : Contains(Lower(text), fail)

extraction_failed(state) ==
  \/ text_failed(Strip(state.topic))
  \/ text_failed(Strip(state.background))

check_extraction_result(state) ==
  IF extraction_failed(state)
  THEN [state EXCEPT !.waiting_for_input = TRUE,
                     !.input_type = "extraction_retry"]
  ELSE state

route_after_extraction(state) ==
  IF ~text_failed(Strip(state.topic)) /\ ~text_failed(Strip(state.background))
  THEN "generate_plan"
  ELSE "request_new_query"

request_new_query(state) ==
  [state EXCEPT !.messages = <<create_ai_message(ERROR_MSG)>>,
                !.waiting_for_input = TRUE,
                !.input_type = "new_query",
                !.message = ERROR_MSG]

\* learning_plan: what create_learning_plan returned
generate_learning_plan(state, learning_plan) ==
  [state EXCEPT !.messages = <<create_ai_message("plan_text")>>,
                !.learning_plan = Some(learning_plan),
                !.current_lesson_idx = 0,
                !.attempt_count = 0,
                !.weak_points = <<>>,
                !.completed = FALSE,
                !.waiting_for_input = FALSE]

\* mutant: completion is detected one lesson too late
check_progress_node_strict(state) ==
  IF state.current_lesson_idx > NumLessons(state)
  THEN [state EXCEPT !.messages = <<create_ai_message("completion_msg")>>,
                     !.completed = TRUE,
                     !.message = "Course completed successfully!",
                     !.waiting_for_input = FALSE]
  ELSE [state EXCEPT !.messages = <<create_ai_message("lesson_intro")>>,
                     !.waiting_for_input = FALSE]

check_progress_node(state) ==
  IF state.current_lesson_idx >= NumLessons(state)
  THEN [state EXCEPT !.messages = <<create_ai_message("completion_msg")>>,
                     !.completed = TRUE,
                     !.message = "Course completed successfully!",
                     !.waiting_for_input = FALSE]
  ELSE [state EXCEPT !.messages = <<create_ai_message("lesson_intro")>>,
                     !.waiting_for_input = FALSE]

\* mutant: the lecture is generated without the weak points of the state
create_lecture_without_weak_points(state) ==
  [lesson_number |-> current_lesson(state).lesson_number,
   weak_points |-> None]

\* the Lecture create_lecture builds from its parameters
create_lecture(state) ==
  [lesson_number |-> current_lesson(state).lesson_number,
   weak_points |-> IF state.weak_points # <<>>
                   THEN Some(state.weak_points) ELSE None]

give_lecture(state) ==
  [state EXCEPT !.messages = <<create_ai_message("lecture_text")>>,
                !.lecture_content = Some(create_lecture(state)),
                !.waiting_for_input = FALSE]

\* quiz: what create_quiz returned
administer_quiz(state, quiz) ==
  [state EXCEPT !.messages = <<create_ai_message("quiz_text")>>,
                !.quiz_results = Some(quiz),
                !.waiting_for_input = TRUE,
                !.input_type = "quiz"]

\* dict.get(key, default)
dict_get(d, key, default) == IF key \in DOMAIN d THEN d[key] ELSE default

\* the answers process_quiz_answers scores: those of the state, else those
\* parsed from the last human message (parsed: what parse_quiz_answers
\* returned, {} when it raised)
quiz_answers_used(state, parsed) ==
  LET from_state ==
        IF state.quiz_answers # None /\ state.quiz_answers[1] # <<>>
        THEN state.quiz_answers[1] ELSE <<>>
  IN  IF /\ from_state = <<>>
         /\ state.messages # <<>>
         /\ state.quiz_results # None
         /\ human_messages(state.messages) # <<>>
      THEN parsed
      ELSE from_state

\* mutant: multiple choice compares the texts as they are
is_correct_mc_exact(question, user_answer, verdict) ==
  CASE question.type = "multiple_choice" ->
         user_answer = question.correct_answer
    [] question.type = "true_false" ->
         (Lower(Strip(user_answer)) = S_true) = question.correct_answer
    [] question.type = "short_answer" -> verdict
    [] OTHER -> FALSE

\* mutant: true/false compares the text as it is with "true"
is_correct_tf_exact(question, user_answer, verdict) ==
  CASE question.type = "multiple_choice" ->
         Upper(Strip(user_answer)) = Upper(Strip(question.correct_answer))
    [] question.type = "true_false" ->
         (user_answer = S_true) = question.correct_answer
    [] question.type = "short_answer" -> verdict
    [] OTHER -> FALSE

\* mutant: a question of an unknown kind is counted as correct
is_correct_unknown_correct(question, user_answer, verdict) ==
  CASE question.type = "multiple_choice" ->
         Upper(Strip(user_answer)) = Upper(Strip(question.correct_answer))
    [] question.type = "true_false" ->
         (Lower(Strip(user_answer)) = S_true) = question.correct_answer
    [] question.type = "short_answer" -> verdict
    [] OTHER -> TRUE

\* verdict: what evaluate_short_answer returned for this question
is_correct(question, user_answer, verdict) ==
  CASE question.type = "multiple_choice" ->
         Upper(Strip(user_answer)) = Upper(Strip(question.correct_answer))
    [] question.type = "true_false" ->
         (Lower(Strip(user_answer)) = S_true) = question.correct_answer
    [] question.type = "short_answer" -> verdict
    [] OTHER -> FALSE

\* the (1-based) positions of the questions judged incorrect, in order
wrong_questions(quiz, answers, verdicts) ==
  SelectSeq([i \in 1..Len(quiz.questions) |-> i],
            LAMBDA i : ~is_correct(quiz.questions[i],
                                   dict_get(answers, i - 1, <<>>),
                                   verdicts[i]))

\* mutant: the ratio is truncated before it is scaled
quiz_score_of_ratio_first(correct_count, total_questions) ==
  IF total_questions > 0 THEN (correct_count \div total_questions) * 100 ELSE 0

\* int((correct_count / total_questions) * 100) if total_questions > 0 else 0
quiz_score_of(correct_count, total_questions) ==
  IF total_questions > 0 THEN (correct_count * 100) \div total_questions ELSE 0

process_quiz_answers(state, parsed, verdicts) ==
  LET answers == quiz_answers_used(state, parsed)
  IN  IF state.quiz_results = None \/ answers = <<>>
      THEN [state EXCEPT !.messages = <<create_ai_message("error_msg")>>,
                         !.quiz_score = 0,
                         !.waiting_for_input = FALSE]
      ELSE LET quiz == state.quiz_results[1]
               wrong == wrong_questions(quiz, answers, verdicts)
               total_questions == Len(quiz.questions)
               correct_count == total_questions - Len(wrong)
               weak_points ==
                 [k \in 1..Len(wrong) |->
                    First50(quiz.questions[wrong[k]].question)]
           IN  [state EXCEPT
                  !.messages = <<create_ai_message("results_text")>>,
                  !.quiz_score = quiz_score_of(correct_count, total_questions),
                  !.weak_points = Take(weak_points, WeakPointCap),
                  !.waiting_for_input = FALSE]

\* the Assignment create_assignment builds from its parameters
create_assignment(state) ==
  [lesson_number |-> current_lesson(state).lesson_number,
   quiz_score |-> state.quiz_score,
   weak_areas |-> state.weak_points]

create_assignment_node(state) ==
  [state EXCEPT !.messages = <<create_ai_message("assignment_text")>>,
                !.assignment = Some(create_assignment(state)),
                !.waiting_for_input = TRUE,
                !.input_type = "assignment"]

\* mutant: the last human message is parsed whatever the state holds
submission_used_parses_always(state, parsed) ==
  IF /\ state.messages # <<>>
     /\ human_messages(state.messages) # <<>>
  THEN parsed
  ELSE state.assignment_submission

\* the submission grade_assignment_node grades: that of the state, else the
\* one parsed from the last human message (parsed: what
\* parse_assignment_submission returned, "" when it raised)
submission_used(state, parsed) ==
  IF /\ state.assignment_submission = <<>>
     /\ state.messages # <<>>
     /\ human_messages(state.messages) # <<>>
  THEN parsed
  ELSE state.assignment_submission

\* grading_result: what grade_assignment returned
grade_assignment_node(state, parsed, grading_result) ==
  LET submission == submission_used(state, parsed)
  IN  IF submission = <<>> \/ Strip(submission) = <<>>
      THEN [state EXCEPT
              !.messages = <<create_ai_message("no_submission_msg")>>,
              !.assignment_score = 0,
              !.weak_points = current_lesson(state).key_concepts,
              !.waiting_for_input = FALSE]
      ELSE [state EXCEPT
              !.messages = <<create_ai_message("grading_text")>>,
              !.grading_result = Some(grading_result),
              !.assignment_score = int_score(grading_result.score),
              !.weak_points = grading_result.weak_points,
              !.waiting_for_input = FALSE]

\* decision: what check_progress returned
should_advance(state, decision) ==
  IF state.completed THEN "end" ELSE decision

\* mutant: a lesson is skipped
next_idx_plus2(current_idx) == current_idx + 2

\* next_idx = current_idx + 1
next_idx(current_idx) == current_idx + 1

\* mutant: the learner's quiz answers survive the advance
advance_lesson_keeps_answers(state) ==
  [state EXCEPT !.messages = <<create_ai_message("advance_text")>>,
                !.current_lesson_idx = next_idx(state.current_lesson_idx),
                !.attempt_count = 0,
                !.weak_points = <<>>,
                !.message = "advance_msg",
                !.lecture_content = None,
                !.quiz_results = None,
                !.assignment = None,
                !.assignment_submission = <<>>,
                !.grading_result = None,
                !.waiting_for_input = FALSE]

\* mutant: the quiz of the lesson survives the advance
advance_lesson_keeps_quiz(state) ==
  [state EXCEPT !.messages = <<create_ai_message("advance_text")>>,
                !.current_lesson_idx = next_idx(state.current_lesson_idx),
                !.attempt_count = 0,
                !.weak_points = <<>>,
                !.message = "advance_msg",
                !.lecture_content = None,
                !.quiz_answers = None,
                !.assignment = None,
                !.assignment_submission = <<>>,
                !.grading_result = None,
                !.waiting_for_input = FALSE]

advance_lesson(state) ==
  [state EXCEPT !.messages = <<create_ai_message("advance_text")>>,
                !.current_lesson_idx = next_idx(state.current_lesson_idx),
                !.attempt_count = 0,
                !.weak_points = <<>>,
                !.message = "advance_msg",
                !.lecture_content = None,
                !.quiz_results = None,
                !.quiz_answers = None,
                !.assignment = None,
                !.assignment_submission = <<>>,
                !.grading_result = None,
                !.waiting_for_input = FALSE]

\* mutant: the submission survives the repeat
repeat_lesson_keeps_submission(state) ==
  [state EXCEPT !.messages = <<create_ai_message("repeat_text")>>,
                !.attempt_count = state.attempt_count + 1,
                !.message = "repeat_msg",
                !.lecture_content = None,
                !.quiz_results = None,
                !.quiz_answers = None,
                !.assignment = None,
                !.grading_result = None,
                !.waiting_for_input = FALSE]

\* mutant: the count stops at the cap of the ProgressDecision schema
repeat_lesson_capped(state) ==
  [state EXCEPT !.messages = <<create_ai_message("repeat_text")>>,
                !.attempt_count = IF state.attempt_count < AttemptCap
                                  THEN state.attempt_count + 1
                                  ELSE AttemptCap,
                !.message = "repeat_msg",
                !.lecture_content = None,
                !.quiz_results = None,
                !.quiz_answers = None,
                !.assignment = None,
                !.assignment_submission = <<>>,
                !.grading_result = None,
                !.waiting_for_input = FALSE]

repeat_lesson(state) ==
  [state EXCEPT !.messages = <<create_ai_message("repeat_text")>>,
                !.attempt_count = state.attempt_count + 1,
                !.message = "repeat_msg",
                !.lecture_content = None,
                !.quiz_results = None,
                !.quiz_answers = None,
                !.assignment = None,
                !.assignment_submission = <<>>,
                !.grading_result = None,
                !.waiting_for_input = FALSE]

(* ------------------------------ the graph ------------------------------ *)

\* mutant: advance goes straight to the next lecture
edge_advance_to_lecture(node) ==
  CASE node = "extract" -> "check_extraction"
    [] node = "request_new_query" -> "extract"
    [] node = "generate_plan" -> "check_progress"
    [] node = "check_progress" -> "lecture"
    [] node = "lecture" -> "quiz"
    [] node = "quiz" -> "process_quiz"
    [] node = "process_quiz" -> "assignment"
    [] node = "assignment" -> "grade"
    [] node = "advance" -> "lecture"
    [] node = "repeat" -> "lecture"

\* graph.add_edge(source, target)
edge(node) ==
  CASE node = "extract" -> "check_extraction"
    [] node = "request_new_query" -> "extract"
    [] node = "generate_plan" -> "check_progress"
    [] node = "check_progress" -> "lecture"
    [] node = "lecture" -> "quiz"
    [] node = "quiz" -> "process_quiz"
    [] node = "process_quiz" -> "assignment"
    [] node = "assignment" -> "grade"
    [] node = "advance" -> "check_progress"
    [] node = "repeat" -> "lecture"

\* mutant: the entry for "repeat" names the advance node
grade_path_repeat_advances(route) ==
  CASE route = "advance" -> "advance"
    [] route = "repeat" -> "advance"
    [] route = "end" -> END

\* the path map of the conditional edge after grade
grade_path(route) ==
  CASE route = "advance" -> "advance"
    [] route = "repeat" -> "repeat"
    [] route = "end" -> END

\* the keys of that path map
grade_routes == { "advance", "repeat", "end" }

\* the run stops after a node of interrupt_after and before one of
\* interrupt_before
run_after(node, target) ==
  IF node \in interrupt_after \/ target \in interrupt_before
  THEN "interrupted"
  ELSE IF target = END THEN "ended" ELSE "running"

\* the nodes of one lesson pass, in the order of the edges
LessonNodes == <<"lecture", "quiz", "process_quiz", "assignment", "grade">>

\* the stored state after a node's dict is written to the channels
committed(state, out) ==
  [out EXCEPT !.messages = add_messages(state.messages, out.messages)]

\* one super-step: the node's dict is written to the channels, the
\* checkpoint is saved with the node to run next, and the update is streamed
\* to the driver (current_state = state in run_learning_session)
Commit(node, out, target) ==
  /\ st' = [out EXCEPT !.messages = add_messages(st.messages, out.messages)]
  /\ last' = node
  /\ pass' = IF node \in { "generate_plan", "advance", "repeat" } THEN <<>>
             ELSE IF \E i \in 1..Len(LessonNodes) : LessonNodes[i] = node
                  THEN Append(pass, node)
                  ELSE pass
  /\ next' = target
  /\ run' = run_after(node, target)
  /\ current_state' = out
  /\ dpc' = "event"
  /\ UNCHANGED <<is_first_run, store>>

\* the node raises: nothing is written, the exception reaches the driver's
\* "except Exception", which prints it and returns
Abort ==
  /\ run' = "failed"
  /\ dpc' = "exit"
  /\ UNCHANGED <<st, next, last, pass, current_state, is_first_run, store>>

\* the graph run is about to execute node
Ready(node) == run = "running" /\ dpc = "stream" /\ next = node

\* ValueError / IndexError raised by the node (or its router) in this state
Raises(node, state) ==
  CASE node \in { "check_progress" } -> state.learning_plan = None
    [] node \in { "lecture", "assignment", "advance", "repeat" } ->
         ~IndexInRange(state)
    [] node = "quiz" -> state.lecture_content = None \/ ~IndexInRange(state)
    [] node = "grade" -> state.assignment = None \/ ~IndexInRange(state)
    [] OTHER -> FALSE

\* the node awaits an external collaborator in this state
CallsCollaborator(node, state) ==
  CASE node = "extract" -> resolved_query(state) # ""
    [] node = "process_quiz" ->
         /\ state.quiz_results # None
         /\ \E i \in 1..Len(state.quiz_results[1].questions) :
              state.quiz_results[1].questions[i].type = "short_answer"
    [] node \in { "check_extraction", "request_new_query", "check_progress" }
         -> FALSE
    [] OTHER -> TRUE

Extract ==
  /\ Ready("extract")
  /\ \E inputs \in Extractions :
       Commit("extract", extract_topic_and_background_node(st, inputs),
              edge("extract"))

CheckExtraction ==
  /\ Ready("check_extraction")
  /\ LET out == check_extraction_result(st)
     IN  Commit("check_extraction", out, route_after_extraction(out))

RequestNewQuery ==
  /\ Ready("request_new_query")
  /\ Commit("request_new_query", request_new_query(st),
            edge("request_new_query"))

GeneratePlan ==
  /\ Ready("generate_plan")
  /\ \E learning_plan \in Plans :
       Commit("generate_plan", generate_learning_plan(st, learning_plan),
              edge("generate_plan"))

CheckProgress ==
  /\ Ready("check_progress")
  /\ ~Raises("check_progress", st)
  /\ Commit("check_progress", check_progress_node(st), edge("check_progress"))

Lecture ==
  /\ Ready("lecture")
  /\ ~Raises("lecture", st)
  /\ Commit("lecture", give_lecture(st), edge("lecture"))

Quiz ==
  /\ Ready("quiz")
  /\ ~Raises("quiz", st)
  /\ \E quiz \in Quizzes :
       Commit("quiz", administer_quiz(st, quiz), edge("quiz"))

ProcessQuiz ==
  /\ Ready("process_quiz")
  /\ \E parsed \in ParsedAnswerDicts, verdict \in BOOLEAN :
       Commit("process_quiz",
              process_quiz_answers(st, parsed, [i \in 1..5 |-> verdict]),
              edge("process_quiz"))

AssignmentNode ==
  /\ Ready("assignment")
  /\ ~Raises("assignment", st)
  /\ Commit("assignment", create_assignment_node(st), edge("assignment"))

\* the number of repeats drawn for the lesson of the state
repeat_bound(state) ==
  IF state.current_lesson_idx = 0 THEN MaxAttemptsFirst ELSE MaxAttempts

\* what grade and the conditional edge behind it do for one answer of the
\* progress-decision collaborator: an answer that is no key of the path map
\* raises and nothing is written; the decision "repeat" is drawn only while
\* attempt_count is below the bound of the lesson
GradeStep(decision) ==
  /\ decision = "repeat" => st.attempt_count < repeat_bound(st)
  /\ \E parsed \in ParsedSubmissions, grading_result \in GradingResults :
       LET out == grade_assignment_node(st, parsed, grading_result)
           route == should_advance(out, decision)
       IN  IF route \in grade_routes
           THEN Commit("grade", out, grade_path(route))
           ELSE Abort

Grade ==
  /\ Ready("grade")
  /\ ~Raises("grade", st)
  /\ \E decision \in DecisionValues : GradeStep(decision)

Advance ==
  /\ Ready("advance")
  /\ ~Raises("advance", st)
  /\ Commit("advance", advance_lesson(st), edge("advance"))

Repeat ==
  /\ Ready("repeat")
  /\ ~Raises("repeat", st)
  /\ Commit("repeat", repeat_lesson(st), edge("repeat"))

NodeRaises ==
  /\ run = "running" /\ dpc = "stream" /\ next \in Nodes
  /\ Raises(next, st)
  /\ Abort

CollaboratorFails ==
  /\ run = "running" /\ dpc = "stream" /\ next \in Nodes
  /\ ~Raises(next, st)
  /\ CallsCollaborator(next, st)
  /\ Abort

(* ------------------------ run_learning_session ------------------------- *)

\* app.update_state(config, values): values are written over the stored
\* state as if by the node that ran last
update_state(state, values) ==
  [f \in DOMAIN state |-> IF f \in DOMAIN values THEN values[f] ELSE state[f]]

\* mutant: the patch also resets input_type
quiz_patch_clears_type(answers) ==
  [quiz_answers |-> Some(answers), waiting_for_input |-> FALSE,
   input_type |-> "None"]

\* the patch the driver submits after handle_quiz
quiz_patch(answers) ==
  [quiz_answers |-> Some(answers), waiting_for_input |-> FALSE]

\* the patch the driver submits after handle_assignment
assignment_patch(submission) ==
  [assignment_submission |-> submission, waiting_for_input |-> FALSE]

\* the answer handle_quiz accepts for a question
cli_answer_ok(question, answer) ==
  CASE question.type = "multiple_choice" ->
         answer \in { <<"A">>, <<"B">>, <<"C">>, <<"D">> }
    [] question.type = "true_false" ->
         answer \in { <<"T", "r", "u", "e">>, <<"F", "a", "l", "s", "e">> }
    [] OTHER -> answer # <<>>

\* the dicts handle_quiz can return for the quiz of the state
handle_quiz(state) ==
  IF state.quiz_results = None
  THEN { <<>> }
  ELSE LET questions == state.quiz_results[1].questions
       IN  { answers \in AnswerDicts :
               \A i \in 1..Len(questions) :
                 cli_answer_ok(questions[i], answers[i - 1]) }

\* the strings handle_assignment can return for the assignment of the state
handle_assignment(state) ==
  IF state.assignment = None THEN { <<>> } ELSE CliSubmissions

\* mutant: the run re-enters at the node that set the pause
resume_target_paused_node(checkpoint_next, ran_last) ==
  IF ran_last \in interrupt_after THEN ran_last ELSE checkpoint_next

\* app.astream(None, config) continues from the checkpoint: the node the
\* checkpoint names as next, never the node that ran before the interrupt
resume_target(checkpoint_next, ran_last) == checkpoint_next

\* app.astream(stream_input, config) with a dict: the keys of the dict are
\* written to the channels, "messages" through add_messages; initial_state
\* has no "query" key, so the stored query stays
write_input(state, input) ==
  [f \in DOMAIN state |->
     IF f = "messages" THEN add_messages(state.messages, input.messages)
     ELSE IF f = "query" THEN state.query
     ELSE input[f]]

\* while not current_state.get("completed"): app.astream(stream_input, config)
\* with stream_input = current_state on the first run and None afterwards
DriverLoop ==
  /\ dpc = "loop"
  /\ IF current_state.completed
     THEN /\ dpc' = "exit"
          /\ UNCHANGED <<st, next, run, last, pass, current_state,
                         is_first_run>>
     ELSE /\ dpc' = "stream"
          /\ is_first_run' = FALSE
          /\ IF is_first_run
             THEN /\ st' = write_input(st, current_state)
                  /\ next' = "extract"
                  /\ run' = "running"
             ELSE /\ next' = resume_target(next, last)
                  /\ run' = IF next' = END THEN "ended" ELSE "running"
                  /\ UNCHANGED st
          /\ UNCHANGED <<last, pass, current_state>>
  /\ UNCHANGED store

\* mutant: the quiz handler runs on input_type alone
DriverHandleQuiz_unguarded ==
  /\ dpc = "event"
  /\ current_state.input_type = "quiz"
  /\ \E answers \in handle_quiz(current_state) :
       /\ st' = update_state(st, quiz_patch(answers))
       /\ current_state' = update_state(current_state, quiz_patch(answers))
  /\ dpc' = "loop"
  /\ UNCHANGED <<next, run, last, pass, is_first_run, store>>

\* the learner answers the quiz; the patch is stored and the for loop left
DriverHandleQuiz ==
  /\ dpc = "event"
  /\ current_state.waiting_for_input
  /\ current_state.input_type = "quiz"
  /\ \E answers \in handle_quiz(current_state) :
       /\ st' = update_state(st, quiz_patch(answers))
       /\ current_state' = update_state(current_state, quiz_patch(answers))
  /\ dpc' = "loop"
  /\ UNCHANGED <<next, run, last, pass, is_first_run, store>>

\* the learner submits the assignment; the patch is stored, the for loop left
DriverHandleAssignment ==
  /\ dpc = "event"
  /\ current_state.waiting_for_input
  /\ current_state.input_type = "assignment"
  /\ \E submission \in handle_assignment(current_state) :
       /\ st' = update_state(st, assignment_patch(submission))
       /\ current_state' =
            update_state(current_state, assignment_patch(submission))
  /\ dpc' = "loop"
  /\ UNCHANGED <<next, run, last, pass, is_first_run, store>>

\* any other event: the for loop asks the stream for the next one
DriverContinue ==
  /\ dpc = "event"
  /\ ~(/\ current_state.waiting_for_input
       /\ current_state.input_type \in { "quiz", "assignment" })
  /\ dpc' = "stream"
  /\ UNCHANGED <<st, next, run, last, pass, current_state, is_first_run,
                 store>>

\* the stream is exhausted: the run was interrupted or reached END
StreamEnd ==
  /\ dpc = "stream"
  /\ run \in { "interrupted", "ended" }
  /\ dpc' = "loop"
  /\ UNCHANGED <<st, next, run, last, pass, current_state, is_first_run,
                 store>>

(* ------------------------------ sessions ------------------------------- *)
(* Two sessions on one compiled graph and one checkpointer, each under its *)
(* own thread id, started as src/scripts/test_main.py starts them and      *)
(* resumed as run_learning_session resumes.                                *)

\* config["configurable"]["thread_id"] of the two tests
Threads == { "test-session-1", "test-session-2" }

\* config = {"configurable": {"thread_id": ...}}
config(thread) == [thread_id |-> thread]

\* mutant: every config is filed under one key
thread_key_shared(cfg) == "test-session-1"

\* the key under which the checkpointer files the checkpoints of a config
thread_key(cfg) == cfg.thread_id

\* the topic the test of the thread asks for
test_topic(thread) ==
  IF thread = "test-session-1" THEN <<"a", "i">> ELSE <<"x", "x">>

\* initial_state of the test of the thread; messages: none in the tests, the
\* learner's message when the graph is started from a chat
test_initial_state(thread, messages) ==
  [initial_state(test_topic(thread), S_beginner, messages) EXCEPT
     !.assignment_submission =
        IF thread = "test-session-1" THEN <<"x">> ELSE <<>>]

\* a thread without checkpoint: no channel has a value
EmptyCheckpoint ==
  [values |-> initial_state(<<>>, <<>>, <<>>), next |-> "extract",
   run |-> "idle", step |-> 0]

EmptyStore == [thread \in Threads |-> EmptyCheckpoint]

\* checkpointer.get(config)
get_state(cfg) == store[thread_key(cfg)]

\* checkpointer.put(config, checkpoint)
put_state(cfg, checkpoint) == [store EXCEPT ![thread_key(cfg)] = checkpoint]

\* the dict a node can return in a state and the node its edge names next
NodeResults(node, state) ==
  IF Raises(node, state) THEN { }
  ELSE
  CASE node = "extract" ->
         { [out |-> extract_topic_and_background_node(state, inputs),
            target |-> edge(node)] : inputs \in Extractions }
    [] node = "check_extraction" ->
         LET out == check_extraction_result(state)
         IN  { [out |-> out, target |-> route_after_extraction(out)] }
    [] node = "request_new_query" ->
         { [out |-> request_new_query(state), target |-> edge(node)] }
    [] node = "generate_plan" ->
         { [out |-> generate_learning_plan(state, learning_plan),
            target |-> edge(node)] : learning_plan \in Plans }
    [] node = "check_progress" ->
         { [out |-> check_progress_node(state), target |-> edge(node)] }
    [] node = "lecture" ->
         { [out |-> give_lecture(state), target |-> edge(node)] }
    [] node = "quiz" ->
         { [out |-> administer_quiz(state, quiz), target |-> edge(node)] :
             quiz \in Quizzes }
    [] node = "process_quiz" ->
         { [out |-> process_quiz_answers(
                      state, parsed, [i \in 1..QuizLength |-> verdict]),
            target |-> edge(node)] :
             parsed \in ParsedAnswerDicts, verdict \in BOOLEAN }
    [] node = "assignment" ->
         { [out |-> create_assignment_node(state), target |-> edge(node)] }
    [] node = "grade" ->
         UNION
           { LET out == grade_assignment_node(state, parsed, grading_result)
             IN  { [out |-> out,
                    target |-> grade_path(should_advance(out, decision))] :
                     decision \in
                       { d \in Decisions :
                           d = "repeat" => state.attempt_count < MaxAttempts } }
             : parsed \in ParsedSubmissions,
               grading_result \in GradingResults }
    [] node = "advance" ->
         { [out |-> advance_lesson(state), target |-> edge(node)] }
    [] node = "repeat" ->
         { [out |-> repeat_lesson(state), target |-> edge(node)] }

\* app.astream(initial_state, config) on a thread that has not run yet
StartResults(checkpoint, thread) ==
  IF checkpoint.run # "idle" THEN { }
  ELSE { [values |-> write_input(checkpoint.values,
                                 test_initial_state(thread, messages)),
          next |-> "extract", run |-> "running", step |-> 0] :
           messages \in { <<>>, <<HumanMessage("user text")>> } }

\* one super-step of a running thread, at most MaxSessionSteps of them
NodeStepResults(checkpoint) ==
  IF \/ checkpoint.run # "running"
     \/ checkpoint.next \notin Nodes
     \/ checkpoint.step >= MaxSessionSteps
  THEN { }
  ELSE { [values |-> committed(checkpoint.values, r.out),
          next |-> r.target,
          run |-> run_after(checkpoint.next, r.target),
          step |-> checkpoint.step + 1] :
           r \in NodeResults(checkpoint.next, checkpoint.values) }

\* the node or its collaborator raises: the checkpoint keeps its values
FailResults(checkpoint) ==
  IF /\ checkpoint.run = "running"
     /\ checkpoint.next \in Nodes
     /\ checkpoint.step < MaxSessionSteps
     /\ \/ Raises(checkpoint.next, checkpoint.values)
        \/ CallsCollaborator(checkpoint.next, checkpoint.values)
  THEN { [checkpoint EXCEPT !.run = "failed"] }
  ELSE { }

\* the patches the driver stores at a pause before it resumes
PausePatches(state) ==
  IF state.waiting_for_input /\ state.input_type = "quiz"
  THEN { quiz_patch(answers) : answers \in handle_quiz(state) }
  ELSE IF state.waiting_for_input /\ state.input_type = "assignment"
  THEN { assignment_patch(submission) :
           submission \in handle_assignment(state) }
  ELSE { [waiting_for_input |-> state.waiting_for_input] }

\* app.update_state(config, patch) and app.astream(None, config) on an
\* interrupted thread
ResumeResults(checkpoint) ==
  IF checkpoint.run # "interrupted" THEN { }
  ELSE { [checkpoint EXCEPT
            !.values = update_state(checkpoint.values, patch),
            !.run = IF checkpoint.next = END THEN "ended" ELSE "running"] :
           patch \in PausePatches(checkpoint.values) }

SessionStart ==
  /\ \E thread \in Threads :
       \E checkpoint \in StartResults(get_state(config(thread)), thread) :
         store' = put_state(config(thread), checkpoint)
  /\ UNCHANGED <<st, next, run, last, pass, current_state, is_first_run, dpc>>

SessionNode ==
  /\ \E thread \in Threads :
       \E checkpoint \in NodeStepResults(get_state(config(thread))) :
         store' = put_state(config(thread), checkpoint)
  /\ UNCHANGED <<st, next, run, last, pass, current_state, is_first_run, dpc>>

SessionFails ==
  /\ \E thread \in Threads :
       \E checkpoint \in FailResults(get_state(config(thread))) :
         store' = put_state(config(thread), checkpoint)
  /\ UNCHANGED <<st, next, run, last, pass, current_state, is_first_run, dpc>>

SessionResume ==
  /\ \E thread \in Threads :
       \E checkpoint \in ResumeResults(get_state(config(thread))) :
         store' = put_state(config(thread), checkpoint)
  /\ UNCHANGED <<st, next, run, last, pass, current_state, is_first_run, dpc>>

\* Ctrl-C while the stream is read or an event handled: a node in flight is
\* cancelled with nothing written, "except KeyboardInterrupt" prints
\* "Progress saved!" and the driver returns
KeyboardInterrupt ==
  /\ dpc \in { "stream", "event" }
  /\ Abort

\* USE_PERSISTENCE=true: the process is started again; main() builds
\* initial_state from the entered topic and background and calls
\* run_learning_session on the same database and thread id "cli-session",
\* so the stored checkpoint (st, next) is the one the last process left
Restart ==
  /\ dpc = "exit"
  /\ current_state' = initial_state(S_ai, S_beginner, <<>>)
  /\ is_first_run' = TRUE
  /\ dpc' = "loop"
  /\ UNCHANGED <<st, next, run, last, pass, store>>

(* --------------------------- specification ----------------------------- *)

\* main(): the CLI's initial state for an entered topic and background; the
\* chat transport starts the same graph with the learner's message in
\* "messages"
Init ==
  /\ \E messages \in { <<>>, <<HumanMessage("user text")>> } :
       current_state = initial_state(S_ai, S_beginner, messages)
  /\ st = initial_state(S_ai, S_beginner, <<>>)
  /\ next = "extract"
  /\ run = "idle"
  /\ last = "none"
  /\ pass = <<>>
  /\ is_first_run = TRUE
  /\ dpc = "loop"
  /\ store = EmptyStore

Next ==
  \/ DriverLoop
  \/ Extract
  \/ CheckExtraction
  \/ RequestNewQuery
  \/ GeneratePlan
  \/ CheckProgress
  \/ Lecture
  \/ Quiz
  \/ ProcessQuiz
  \/ AssignmentNode
  \/ Grade
  \/ Advance
  \/ Repeat
  \/ NodeRaises
  \/ CollaboratorFails
  \/ DriverHandleQuiz
  \/ DriverHandleAssignment
  \/ DriverContinue
  \/ StreamEnd

Spec == Init /\ [][Next]_vars

\* the CLI with persistence enabled, interrupted and started again
NextRestart ==
  \/ Next
  \/ KeyboardInterrupt
  \/ Restart

SpecRestart == Init /\ [][NextRestart]_vars

\* a client of the compiled graph resumes a thread paused for the quiz or
\* the assignment without storing structured input: quiz_answers and
\* assignment_submission stay as they are, and the node behind the pause
\* turns to the last human message
CallerResume ==
  /\ dpc = "event"
  /\ current_state.waiting_for_input
  /\ current_state.input_type \in { "quiz", "assignment" }
  /\ dpc' = "loop"
  /\ UNCHANGED <<st, next, run, last, pass, current_state, is_first_run,
                 store>>

\* the submissions such a client can store that the CLI never returns
BlankSubmissions == { <<>>, <<" ">> }

\* the client stores a submission of its own at the assignment pause
CallerSubmit ==
  /\ dpc = "event"
  /\ current_state.waiting_for_input
  /\ current_state.input_type = "assignment"
  /\ \E submission \in BlankSubmissions :
       /\ st' = update_state(st, assignment_patch(submission))
       /\ current_state' =
            update_state(current_state, assignment_patch(submission))
  /\ dpc' = "loop"
  /\ UNCHANGED <<next, run, last, pass, is_first_run, store>>

(* ------------------------ progress specification ---------------------- *)
(* The CLI session in which the extraction succeeds, no collaborator call  *)
(* fails and the progress decision is a member of Decision; the driver     *)
(* loop and the graph run on whenever they can, and the learner answers    *)
(* every pause.  Repeat is drawn a bounded number of times per lesson, so  *)
(* the decision of every lesson is advance in the end.                     *)

\* extract_topic_and_background returns a topic and a background
ExtractSucceeds == Extract /\ ~extraction_failed(st')

\* check_progress returns a member of Decision
GradeDecides == Grade /\ run' # "failed"

\* the stream of such a session is never exhausted: the driver leaves the for
\* loop at every pause, and the run after the last lesson ends in the raise
NextProgress ==
  \/ DriverLoop
  \/ ExtractSucceeds
  \/ CheckExtraction
  \/ GeneratePlan
  \/ CheckProgress
  \/ Lecture
  \/ Quiz
  \/ ProcessQuiz
  \/ AssignmentNode
  \/ GradeDecides
  \/ Advance
  \/ Repeat
  \/ NodeRaises
  \/ DriverHandleQuiz
  \/ DriverHandleAssignment
  \/ DriverContinue

SpecProgress == Init /\ [][NextProgress]_vars /\ WF_vars(NextProgress)

\* the learner's new request
S_new_text == "new text"

\* what the client can store at the pause before request_new_query: the new
\* request as the query, or as a human message
NewQueryPatches ==
  { [query |-> S_new_text], [messages |-> <<HumanMessage(S_new_text)>>] }

\* app.update_state(config, values) with a query or with messages, which go
\* through the reducer of the channel
update_query(state, values) ==
  IF "query" \in DOMAIN values
  THEN [state EXCEPT !.query = values.query]
  ELSE [state EXCEPT !.messages = add_messages(state.messages,
                                               values.messages)]

\* the client answers the pause after a failed extraction with the
\* learner's new request; a request is supplied once
CallerNewQuery ==
  /\ dpc = "event"
  /\ run = "interrupted"
  /\ current_state.waiting_for_input
  /\ current_state.input_type = "extraction_retry"
  /\ st.query # S_new_text
  /\ \A i \in 1..Len(st.messages) : st.messages[i].content # S_new_text
  /\ \E values \in NewQueryPatches : st' = update_query(st, values)
  /\ dpc' = "loop"
  /\ UNCHANGED <<next, run, last, pass, current_state, is_first_run, store>>

\* the graph driven by the CLI or by such a client
NextCaller ==
  \/ Next
  \/ CallerResume
  \/ CallerSubmit

SpecCaller == Init /\ [][NextCaller]_vars

\* the extraction loop of the graph (extract, check_extraction,
\* request_new_query and back) driven by a client that supplies the new request
NextRetry ==
  \/ DriverLoop
  \/ Extract
  \/ CheckExtraction
  \/ RequestNewQuery
  \/ DriverContinue
  \/ StreamEnd
  \/ CallerNewQuery

SpecRetry == Init /\ [][NextRetry]_vars

TypeOK ==
  /\ next \in Nodes \cup { END }
  /\ run \in { "idle", "running", "interrupted", "ended", "failed" }
  /\ last \in Nodes \cup { "none" }
  /\ dpc \in { "loop", "stream", "event", "exit" }
  /\ is_first_run \in BOOLEAN
  /\ DOMAIN st = Fields
  /\ st.input_type \in
       { "None", "quiz", "assignment", "extraction_retry", "new_query" }

(* ------------------------ scoring specification ------------------------ *)
(* process_quiz_answers as a function of the quiz and the answers held in  *)
(* the state: the quiz pause is reached by running the nodes up to Quiz,   *)
(* and the answers stored at the pause are drawn from texts with blanks    *)
(* around them, in either case, empty, or missing.                         *)

\* k blanks
Pad(k) == [i \in 1..k |-> " "]

\* texts a learner's answer is made of
AnswerCores ==
  { <<>>, <<"A">>, <<"a">>, <<"B">>, <<"b">>, <<"t", "r", "u", "e">>,
    <<"T", "r", "u", "e">>, <<"T", "R", "U", "E">>,
    <<"F", "a", "l", "s", "e">>, <<"x">> }

\* answers.get(f"q{i}", ""): any str
AnswerTexts ==
  { Pad(l) \o core \o Pad(r) : l \in 0..MaxPad, r \in 0..MaxPad,
                                core \in AnswerCores }

\* the answers the CLI hands over for a question
CliTexts ==
  { <<"A">>, <<"D">>, <<"T", "r", "u", "e">>, <<"F", "a", "l", "s", "e">>,
    <<"x">> }

\* quiz.questions cut to its first n questions (process_quiz_answers takes
\* len(quiz.questions) as it finds it; the Quiz schema makes it QuizLength)
QuizPrefix(quiz, n) == [questions |-> SubSeq(quiz.questions, 1, n)]

\* the dicts stored as quiz_answers: the CLI's dict for the questions, the
\* same with one answer replaced by any text, with one key missing, and with
\* a key that belongs to no question
ScoringAnswers(questions) ==
  LET n == Len(questions)
      keys == 0..(n - 1)
      typed == { d \in [keys -> CliTexts] :
                   \A i \in keys : cli_answer_ok(questions[i + 1], d[i]) }
  IN  typed
        \cup { [d EXCEPT ![p] = t] : d \in typed, p \in keys,
                                     t \in AnswerTexts }
        \cup { [i \in keys \ { p } |-> d[i]] : d \in typed, p \in keys }
        \cup { d @@ (n :> <<"A">>) : d \in typed }

\* the stored state after the lecture of the first lesson
state_after_lecture(inputs, learning_plan) ==
  LET s0 == initial_state(S_ai, S_beginner, <<HumanMessage("user text")>>)
      s1 == committed(s0, extract_topic_and_background_node(s0, inputs))
      s2 == committed(s1, check_extraction_result(s1))
      s3 == committed(s2, generate_learning_plan(s2, learning_plan))
      s4 == committed(s3, check_progress_node(s3))
  IN  committed(s4, give_lecture(s4))

\* the resume after the quiz pause is about to run process_quiz on the
\* stored answers
InitQuiz ==
  /\ \E inputs \in Extractions, learning_plan \in Plans,
        quiz \in Quizzes \cup UnvalidatedQuizzes, n \in 0..QuizLength :
       /\ Len(learning_plan.lessons) = MinLessons
       /\ Len(learning_plan.lessons[1].key_concepts) = 2
       /\ LET lectured == state_after_lecture(inputs, learning_plan)
              event == administer_quiz(lectured, QuizPrefix(quiz, n))
              paused == committed(lectured, event)
          IN  /\ ~extraction_failed(paused)
              /\ \E answers \in
                      ScoringAnswers(paused.quiz_results[1].questions) :
                   /\ st = update_state(paused, quiz_patch(answers))
                   /\ current_state =
                        update_state(event, quiz_patch(answers))
  /\ next = "process_quiz"
  /\ run = "running"
  /\ last = "quiz"
  /\ pass = <<"lecture", "quiz">>
  /\ is_first_run = FALSE
  /\ dpc = "stream"
  /\ store = EmptyStore

NextQuiz ==
  \/ ProcessQuiz
  \/ CollaboratorFails
  \/ DriverContinue

SpecQuiz == InitQuiz /\ [][NextQuiz]_vars

(* ------------------------- nodes specification ------------------------- *)
(* The lesson nodes as functions of the state they are handed: the state   *)
(* of a lesson in which every artifact is set, with any of the artifacts   *)
(* absent, and any lesson node as the node to run.                         *)

\* the fields a lesson stage stores for the stages behind it
Artifacts == { "learning_plan", "lecture_content", "quiz_results",
               "assignment" }

\* the nodes of a lesson
StageNodes == { "check_progress", "lecture", "quiz", "process_quiz",
                "assignment", "grade", "advance", "repeat" }

\* the state with the fields of absent as initial_state has them: None
without(state, absent) ==
  [f \in DOMAIN state |-> IF f \in absent THEN None ELSE state[f]]

\* the state of the first lesson after lecture, quiz, process_quiz and
\* assignment have run and the learner's input is stored
state_after_assignment(learning_plan, quiz, answers, submission) ==
  LET lectured ==
        state_after_lecture([topic |-> S_ai, background |-> S_beginner],
                            learning_plan)
      asked == committed(lectured, administer_quiz(lectured, quiz))
      answered == update_state(asked, quiz_patch(answers))
      scored ==
        committed(answered,
                  process_quiz_answers(answered, <<>>,
                                       [i \in 1..QuizLength |-> TRUE]))
      assigned == committed(scored, create_assignment_node(scored))
  IN  update_state(assigned, assignment_patch(submission))

\* a lesson node is about to run on such a state
InitNodes ==
  /\ \E learning_plan \in Plans, quiz \in Quizzes, answers \in AnswerDicts,
        submission \in CliSubmissions, absent \in SUBSET Artifacts,
        node \in StageNodes :
       /\ \A i \in 1..QuizLength :
            cli_answer_ok(quiz.questions[i], answers[i - 1])
       /\ st = without(state_after_assignment(learning_plan, quiz, answers,
                                              submission), absent)
       /\ current_state = st
       /\ next = node
  /\ run = "running"
  /\ last = "none"
  /\ pass = <<>>
  /\ is_first_run = FALSE
  /\ dpc = "stream"
  /\ store = EmptyStore

NextNodes ==
  \/ CheckProgress
  \/ Lecture
  \/ Quiz
  \/ ProcessQuiz
  \/ AssignmentNode
  \/ Grade
  \/ Advance
  \/ Repeat
  \/ NodeRaises
  \/ CollaboratorFails
  \/ DriverContinue

SpecNodes == InitNodes /\ [][NextNodes]_vars

(* ------------------------ sessions specification ----------------------- *)

\* no thread has run; the CLI session is not started
InitSessions ==
  /\ current_state = initial_state(S_ai, S_beginner, <<>>)
  /\ st = initial_state(S_ai, S_beginner, <<>>)
  /\ next = "extract"
  /\ run = "idle"
  /\ last = "none"
  /\ pass = <<>>
  /\ is_first_run = TRUE
  /\ dpc = "loop"
  /\ store = EmptyStore

NextSessions ==
  \/ SessionStart
  \/ SessionNode
  \/ SessionFails
  \/ SessionResume

SpecSessions == InitSessions /\ [][NextSessions]_vars

(* ------------------------------- claims -------------------------------- *)

\* a step in which the graph completes node
Ran(node) == run = "running" /\ next = node /\ last' = node

\* the edges the specification lists ("none": nothing has run yet)
ClaimEdges ==
  { <<"none", "extract">>, <<"extract", "check_extraction">>,
    <<"check_extraction", "generate_plan">>,
    <<"check_extraction", "request_new_query">>,
    <<"request_new_query", "extract">>,
    <<"generate_plan", "check_progress">>, <<"check_progress", "lecture">>,
    <<"lecture", "quiz">>, <<"quiz", "process_quiz">>,
    <<"process_quiz", "assignment">>, <<"assignment", "grade">>,
    <<"grade", "advance">>, <<"grade", "repeat">>,
    <<"advance", "check_progress">>, <<"repeat", "lecture">> }

\* C1: every node that completes follows the previously completed node along
\* one of the listed edges, and whenever Advance or Repeat completes, the
\* lesson pass before it consisted of Lecture, Quiz, ProcessQuiz, Assignment
\* and Grade, each exactly once and in that order.
C1_NodeOrdering ==
  [][ /\ last' # last => <<last, last'>> \in ClaimEdges
      /\ (last' # last /\ last' \in { "advance", "repeat" })
           => pass = LessonNodes ]_vars

\* C1 witness: a second pass of a lesson has been graded after a Repeat
C1_Witness ==
  last = "grade" /\ st.attempt_count = 1 /\ pass = LessonNodes

\* C2 (as claimed): after CheckProgress with the index at or past the end of
\* the plan, completed is set and the graph goes to END; otherwise the next
\* node is Lecture.
C2_CompletionRoutesToEnd ==
  last = "check_progress" =>
    IF st.current_lesson_idx >= NumLessons(st)
    THEN st.completed /\ next = END
    ELSE next = "lecture"

\* C3 (as claimed): once a plan exists, completed holds exactly in the states
\* whose index equals the number of lessons.
C3_CompletedIffIndexAtEnd ==
  st.learning_plan # None =>
    (st.completed <=> st.current_lesson_idx = NumLessons(st))

\* C3 (amended): completed implies that the index equals the number of
\* lessons; the index equal to the number of lessons implies completed in
\* every state except the one left by the last Advance, before the
\* CheckProgress that follows it has run; and the index only ever stays or
\* grows by one.
C3_CompletedExactlyAtEnd ==
  /\ [](st.learning_plan # None =>
          /\ st.completed => st.current_lesson_idx = NumLessons(st)
          /\ (st.current_lesson_idx = NumLessons(st) /\ last # "advance")
               => st.completed)
  /\ [][ st'.current_lesson_idx \in
           { st.current_lesson_idx, st.current_lesson_idx + 1 } ]_vars

\* C3 witness: the course is completed with the index at the end of the plan
C3_Witness ==
  /\ st.learning_plan # None
  /\ st.completed
  /\ st.current_lesson_idx = NumLessons(st)
  /\ last = "check_progress"

\* C4: once the plan is generated, the lesson index stays between 0 and the
\* number of lessons of the plan.
C4_IndexInBounds ==
  st.learning_plan # None =>
    /\ 0 <= st.current_lesson_idx
    /\ st.current_lesson_idx <= NumLessons(st)

\* C4 witness: the last Advance has put the index at the number of lessons
C4_Witness ==
  /\ st.learning_plan # None
  /\ last = "advance"
  /\ st.current_lesson_idx = NumLessons(st)

\* C5: Advance nulls lecture_content, quiz_results, assignment,
\* grading_result and quiz_answers, empties assignment_submission, zeroes
\* attempt_count, adds exactly one to current_lesson_idx and keeps topic,
\* background and learning_plan.
C5_AdvanceFrame ==
  [][ Ran("advance") =>
        /\ st'.lecture_content = None
        /\ st'.quiz_results = None
        /\ st'.assignment = None
        /\ st'.grading_result = None
        /\ st'.quiz_answers = None
        /\ st'.assignment_submission = <<>>
        /\ st'.attempt_count = 0
        /\ st'.current_lesson_idx = st.current_lesson_idx + 1
        /\ st'.topic = st.topic
        /\ st'.background = st.background
        /\ st'.learning_plan = st.learning_plan ]_vars

\* C5 witness: Advance is about to run on a repeated lesson whose artifacts
\* and learner input are all present
C5_Witness ==
  /\ run = "running" /\ next = "advance" /\ dpc = "stream"
  /\ st.attempt_count > 0
  /\ st.lecture_content # None /\ st.quiz_results # None
  /\ st.assignment # None /\ st.grading_result # None
  /\ st.quiz_answers # None /\ st.assignment_submission # <<>>

\* C6: Repeat clears the same artifact fields as Advance, adds exactly one to
\* attempt_count and keeps current_lesson_idx, topic, background and
\* learning_plan.
C6_RepeatFrame ==
  [][ Ran("repeat") =>
        /\ st'.lecture_content = None
        /\ st'.quiz_results = None
        /\ st'.assignment = None
        /\ st'.grading_result = None
        /\ st'.quiz_answers = None
        /\ st'.assignment_submission = <<>>
        /\ st'.attempt_count = st.attempt_count + 1
        /\ st'.current_lesson_idx = st.current_lesson_idx
        /\ st'.topic = st.topic
        /\ st'.background = st.background
        /\ st'.learning_plan = st.learning_plan ]_vars

\* C6 witness: Repeat has run on the second lesson and left it repeated once
C6_Witness ==
  /\ last = "repeat"
  /\ st.current_lesson_idx = 1
  /\ st.attempt_count = 1
  /\ st.assignment_submission = <<>>

\* C7: when Quiz completes, the generated quiz is in quiz_results, the pause
\* signal is (true, quiz) and the run stops with ProcessQuiz next; when
\* Assignment completes, the assignment is stored, the signal is
\* (true, assignment) and the run stops with Grade next; and no node
\* completes while the run is stopped.
C7_PauseAfterGeneration ==
  [][ /\ Ran("quiz") =>
           /\ st'.quiz_results \in { Some(quiz) : quiz \in Quizzes }
           /\ st'.waiting_for_input /\ st'.input_type = "quiz"
           /\ run' = "interrupted" /\ next' = "process_quiz"
      /\ Ran("assignment") =>
           /\ st'.assignment # None
           /\ st'.waiting_for_input /\ st'.input_type = "assignment"
           /\ run' = "interrupted" /\ next' = "grade"
      /\ run = "interrupted" => last' = last ]_vars

\* C7 witness: the run is stopped after Quiz with the quiz stored
C7_Witness ==
  /\ last = "quiz" /\ run = "interrupted" /\ next = "process_quiz"
  /\ st.quiz_results # None
  /\ st.waiting_for_input

\* C8: while ProcessQuiz is the node to run next, no step changes
\* quiz_results or runs anything but ProcessQuiz; the same for Grade and
\* assignment.
C8_ResumeNeverRegenerates ==
  [][ /\ next = "process_quiz" =>
           /\ st'.quiz_results = st.quiz_results
           /\ next' \in { "process_quiz", "assignment" }
           /\ last' \in { last, "process_quiz" }
      /\ next = "grade" =>
           /\ st'.assignment = st.assignment
           /\ next' \in { "grade", "advance", "repeat", END }
           /\ last' \in { last, "grade" } ]_vars

\* C8 witness: after the resume from the quiz pause ProcessQuiz has consumed
\* the answers and the quiz is still stored
C8_Witness ==
  /\ last = "process_quiz"
  /\ st.quiz_results # None
  /\ st.quiz_answers # None
  /\ st.quiz_score > 0

\* the fields in which two states differ
Changed(old, new) == { f \in Fields : new[f] # old[f] }

\* C9: the driver's patch at a quiz pause changes only quiz_answers and
\* waiting_for_input (to false), at an assignment pause only
\* assignment_submission and waiting_for_input; the resume that follows
\* changes no field and starts the run at the node after the paused one.
C9_ResumeMergesPatchOnly ==
  [][ /\ (dpc = "event" /\ dpc' = "loop") =>
           /\ ~st'.waiting_for_input
           /\ \/ /\ last = "quiz"
                 /\ Changed(st, st') \subseteq
                      { "quiz_answers", "waiting_for_input" }
                 /\ next' = "process_quiz"
              \/ /\ last = "assignment"
                 /\ Changed(st, st') \subseteq
                      { "assignment_submission", "waiting_for_input" }
                 /\ next' = "grade"
      /\ (run = "interrupted" /\ run' = "running") =>
           /\ st' = st
           /\ last = "quiz" => next' = "process_quiz"
           /\ last = "assignment" => next' = "grade" ]_vars

\* C9 witness: the quiz patch is stored and the run not yet resumed
C9_Witness ==
  /\ dpc = "loop" /\ run = "interrupted" /\ last = "quiz"
  /\ st.quiz_answers # None
  /\ ~st.waiting_for_input
  /\ st.input_type = "quiz"

\* C10 (as claimed): the pause signal is set exactly while the run is
\* stopped at a suspend boundary; in every other state waiting_for_input is
\* false and input_type is none.
C10_PauseSignal ==
  IF run = "interrupted"
  THEN st.waiting_for_input /\ st.input_type # "None"
  ELSE ~st.waiting_for_input /\ st.input_type = "None"

\* C11: when CheckExtraction completes on a failed extraction, the pause
\* signal is (true, extraction_retry) and the run stops with RequestNewQuery
\* next; RequestNewQuery only completes as the first node of a run resumed
\* from that stop; and no node completes while the run is stopped.
C11_PauseBeforeRequestNewQuery ==
  [][ /\ (Ran("check_extraction") /\ extraction_failed(st)) =>
           /\ st'.waiting_for_input
           /\ st'.input_type = "extraction_retry"
           /\ next' = "request_new_query"
           /\ run' = "interrupted"
      /\ (run' = "running" /\ next' = "request_new_query") =>
           /\ run = "interrupted"
           /\ last = "check_extraction"
           /\ st.waiting_for_input /\ st.input_type = "extraction_retry"
      /\ Ran("request_new_query") => last = "check_extraction"
      /\ run = "interrupted" => last' = last ]_vars

\* C11 witness: the run is stopped before RequestNewQuery after a failed
\* extraction and control is back in the driver's loop
C11_Witness ==
  /\ last = "check_extraction" /\ run = "interrupted" /\ dpc = "loop"
  /\ next = "request_new_query"
  /\ st.waiting_for_input /\ st.input_type = "extraction_retry"

C13_NodeEffectsAtomic ==
  [][ /\ (last' # last) =>
           \A f \in Fields \ { "messages" } : st'[f] = current_state'[f]
      /\ (run # "failed" /\ run' = "failed") =>
           (st' = st /\ next' = next /\ last' = last)
      /\ (run = "failed" /\ run' = "running") =>
           (st' = st /\ next' = next) ]_vars

\* C16 (as claimed): the first graph run of a process started on a thread
\* that already has a checkpoint does not change learning_plan,
\* current_lesson_idx, attempt_count or the per-lesson artifacts and starts
\* at the node the checkpoint names as next.
C16_RestartResumesFromCheckpoint ==
  [][ (is_first_run /\ run # "idle" /\ dpc = "loop" /\ dpc' = "stream") =>
        /\ st'.learning_plan = st.learning_plan
        /\ st'.current_lesson_idx = st.current_lesson_idx
        /\ st'.attempt_count = st.attempt_count
        /\ st'.lecture_content = st.lecture_content
        /\ st'.quiz_results = st.quiz_results
        /\ st'.assignment = st.assignment
        /\ st'.grading_result = st.grading_result
        /\ next' = next ]_vars

\* C17 (as claimed): in a graph started from a state with a valid topic and
\* background and no query or messages, Extract keeps the supplied topic and
\* background, CheckExtraction is followed by GeneratePlan, and GeneratePlan
\* sets learning_plan, leaves current_lesson_idx at 0 and keeps topic and
\* background.
C17_SuppliedTopicReachesPlan ==
  [][ /\ (Ran("extract") /\ st.messages = <<>> /\ st.query = "") =>
           (st'.topic = st.topic /\ st'.background = st.background)
      /\ (Ran("check_extraction") /\ st.messages = <<>>) =>
           /\ next' = "generate_plan"
           /\ st'.topic = S_ai /\ st'.background = S_beginner
      /\ Ran("generate_plan") =>
           /\ st'.learning_plan # None
           /\ st'.current_lesson_idx = 0
           /\ st'.topic = st.topic /\ st'.background = st.background ]_vars

\* ProcessQuiz is about to judge the answers held in the state
JudgesStoredAnswers ==
  /\ run = "running" /\ next = "process_quiz" /\ last' = "process_quiz"
  /\ st.quiz_results # None
  /\ st.quiz_answers # None
  /\ st.quiz_answers[1] # <<>>

\* score is the largest integer not above 100 * c / n
IsFloorPercent(score, c, n) ==
  n * score <= 100 * c /\ 100 * c < n * (score + 1)

\* C18: for a quiz of n questions of which c are judged correct, ProcessQuiz
\* stores quiz_score = floor(100 * c / n), and 0 when n = 0 (the verdict of
\* the short-answer evaluator being either one).
C18_QuizScoreIsFloor ==
  [][ JudgesStoredAnswers =>
        LET questions == st.quiz_results[1].questions
            answers == st.quiz_answers[1]
            n == Len(questions)
        IN  \E verdict \in BOOLEAN :
              LET c == Cardinality(
                         { i \in 1..n :
                             is_correct(questions[i],
                                        dict_get(answers, i - 1, <<>>),
                                        verdict) })
              IN  IF n = 0 THEN st'.quiz_score = 0
                  ELSE IsFloorPercent(st'.quiz_score, c, n) ]_vars

\* C18 witness: two of three questions were judged correct and the score is
\* 66, not 67
C18_Witness ==
  /\ last = "process_quiz"
  /\ st.quiz_results # None
  /\ Len(st.quiz_results[1].questions) = 3
  /\ st.quiz_score = 66
  /\ Len(st.weak_points) = 1

\* the question texts ([:50]) of the questions judged incorrect by judge, in
\* the order of the quiz
TextsJudgedWrong(questions, answers, judge(_, _)) ==
  LET wrong == SelectSeq([i \in 1..Len(questions) |-> i],
                         LAMBDA i : ~judge(questions[i],
                                           dict_get(answers, i - 1, <<>>)))
  IN  [k \in 1..Len(wrong) |-> First50(questions[wrong[k]].question)]

\* what ProcessQuiz stores agrees with the judgement judge: weak_points are
\* the first questions judged incorrect and quiz_score counts the others
StoredAsJudged(judge(_, _)) ==
  LET questions == st.quiz_results[1].questions
      n == Len(questions)
      wrong == TextsJudgedWrong(questions, st.quiz_answers[1], judge)
  IN  /\ st'.weak_points = Take(wrong, WeakPointCap)
      /\ IF n = 0 THEN st'.quiz_score = 0
         ELSE IsFloorPercent(st'.quiz_score, n - Len(wrong), n)

\* the learner's answer and the stored letter are equal once both are
\* trimmed and upper-cased
SameLetter(question, user_answer) ==
  Upper(Strip(user_answer)) = Upper(Strip(question.correct_answer))

\* C19: ProcessQuiz judges a multiple-choice question correct exactly when
\* the learner's answer and the stored correct letter are equal after
\* trimming surrounding blanks and upper-casing both (questions of the other
\* kinds being judged as the code judges them).
C19_MultipleChoiceJudgement ==
  [][ JudgesStoredAnswers =>
        \E verdict \in BOOLEAN :
          LET judge(question, user_answer) ==
                IF question.type = "multiple_choice"
                THEN SameLetter(question, user_answer)
                ELSE is_correct(question, user_answer, verdict)
          IN  StoredAsJudged(judge) ]_vars

\* C19 witness: a one-question multiple-choice quiz whose stored letter is
\* "A" was answered " a " and scored 100
C19_Witness ==
  /\ last = "process_quiz"
  /\ st.quiz_results # None /\ st.quiz_answers # None
  /\ Len(st.quiz_results[1].questions) = 1
  /\ st.quiz_results[1].questions[1].type = "multiple_choice"
  /\ st.quiz_results[1].questions[1].correct_answer = <<"A">>
  /\ 0 \in DOMAIN st.quiz_answers[1]
  /\ st.quiz_answers[1][0] = <<" ", "a", " ">>
  /\ st.quiz_score = 100
  /\ st.weak_points = <<>>

\* the learner's answer reads "true" once trimmed and lower-cased
ReadsTrue(user_answer) == Lower(Strip(user_answer)) = S_true

SessionSuccessors(checkpoint, thread) ==
  StartResults(checkpoint, thread) \cup NodeStepResults(checkpoint)
    \cup FailResults(checkpoint) \cup ResumeResults(checkpoint)

\* the closure of a set of checkpoints under the steps of the thread
RECURSIVE RunsAlone(_, _)
RunsAlone(checkpoints, thread) ==
  LET more == checkpoints \cup
                UNION { SessionSuccessors(checkpoint, thread) :
                          checkpoint \in checkpoints }
  IN  IF more = checkpoints THEN checkpoints ELSE RunsAlone(more, thread)

\* the checkpoints a thread reaches when it is the only one that runs
AloneReachable ==
  [thread \in Threads |-> RunsAlone({ EmptyCheckpoint }, thread)]

KnownKinds == { "multiple_choice", "true_false", "short_answer" }

\* C21: ProcessQuiz counts a question whose kind is none of multiple-choice,
\* true/false and short-answer as incorrect, whatever was answered (its text
\* is a weak point and it adds nothing to the score), and a ProcessQuiz that
\* fails does so only through the short-answer evaluator, never because of
\* the unknown kind.
C21_UnknownKindIncorrect ==
  [][ /\ JudgesStoredAnswers =>
           \E verdict \in BOOLEAN :
             LET judge(question, user_answer) ==
                   IF question.type \notin KnownKinds THEN FALSE
                   ELSE is_correct(question, user_answer, verdict)
             IN  StoredAsJudged(judge)
      /\ (run = "running" /\ next = "process_quiz" /\ run' = "failed") =>
           /\ st.quiz_results # None
           /\ \E i \in 1..Len(st.quiz_results[1].questions) :
                st.quiz_results[1].questions[i].type = "short_answer" ]_vars

\* C21 witness: a question of an unknown kind was answered with the very
\* text stored as its correct answer, ProcessQuiz completed, the question is
\* the only weak point and the other question counts for the score of 50
C21_Witness ==
  /\ last = "process_quiz"
  /\ st.quiz_results # None /\ st.quiz_answers # None
  /\ Len(st.quiz_results[1].questions) = 2
  /\ st.quiz_results[1].questions[2].type \notin KnownKinds
  /\ 1 \in DOMAIN st.quiz_answers[1]
  /\ st.quiz_answers[1][1] = st.quiz_results[1].questions[2].correct_answer
  /\ st.weak_points = << First50(st.quiz_results[1].questions[2].question) >>
  /\ st.quiz_score = 50

\* C22: when ProcessQuiz scores a quiz, weak_points holds, for the first
\* WeakPointCap questions judged incorrect taken in the order of the quiz,
\* the first WeakPointChars characters of the question's text, and nothing
\* else; when no question of a non-empty quiz is judged incorrect,
\* weak_points is empty and quiz_score is 100.
C22_WeakPointsFromWrongQuestions ==
  [][ JudgesStoredAnswers =>
        \E verdict \in BOOLEAN :
          LET questions == st.quiz_results[1].questions
              answers == st.quiz_answers[1]
              n == Len(questions)
              wrong == SelectSeq([i \in 1..n |-> i],
                                 LAMBDA i :
                                   ~is_correct(questions[i],
                                               dict_get(answers, i - 1, <<>>),
                                               verdict))
              kept == IF Len(wrong) < WeakPointCap THEN Len(wrong)
                      ELSE WeakPointCap
          IN  /\ Len(st'.weak_points) = kept
              /\ \A k \in 1..kept :
                   LET text == questions[wrong[k]].question
                       cut == IF Len(text) < WeakPointChars THEN Len(text)
                              ELSE WeakPointChars
                   IN  st'.weak_points[k] = SubSeq(text, 1, cut)
              /\ (n > 0 /\ wrong = <<>>) =>
                   (st'.weak_points = <<>> /\ st'.quiz_score = 100) ]_vars

\* C22 witness: four of five questions were judged incorrect; weak_points
\* holds three entries, the second of them the first 50 characters of a
\* longer question text, and the fourth question is left out
C22_Witness ==
  /\ last = "process_quiz"
  /\ st.quiz_results # None /\ st.quiz_answers # None
  /\ Len(st.quiz_results[1].questions) = QuizLength
  /\ st.quiz_score = 20
  /\ Len(st.weak_points) = WeakPointCap
  /\ Len(st.quiz_results[1].questions[2].question) > WeakPointChars
  /\ Len(st.weak_points[2]) = WeakPointChars
  /\ st.weak_points[2][1] = st.quiz_results[1].questions[2].question[1]

\* the text is not empty once trimmed and is not the sentinel
DetectedText(text) ==
  Strip(text) # <<>> /\ Strip(text) # S_failed_to_detect

\* C24 (as claimed): after CheckExtraction the next node is GeneratePlan
\* exactly when topic and background are both non-empty after trimming and
\* neither equals the sentinel "failed to detect"; otherwise it is
\* RequestNewQuery.
C24_RoutesOnSentinel ==
  [][ Ran("check_extraction") =>
        IF DetectedText(st.topic) /\ DetectedText(st.background)
        THEN next' = "generate_plan"
        ELSE next' = "request_new_query" ]_vars

\* C26 (as claimed): in every reachable state weak_points holds at most
\* three entries.
C26_WeakPointsAtMostThree == Len(st.weak_points) <= WeakPointCap

\* C25: when Grade completes with the decision advance, the node to run
\* next is Advance, with the decision repeat it is Repeat; with a decision
\* outside {advance, repeat} the step fails, the stored state and the node to
\* run next stay as they were, and no node runs once the run has failed.
C25_RoutesOnDecision ==
  [][ /\ \A decision \in DecisionValues :
           (Ready("grade") /\ ~Raises("grade", st) /\ GradeStep(decision)) =>
             CASE decision = "advance" ->
                    last' = "grade" /\ next' = "advance" /\ run' = "running"
               [] decision = "repeat" ->
                    last' = "grade" /\ next' = "repeat" /\ run' = "running"
               [] OTHER ->
                    /\ run' = "failed"
                    /\ st' = st /\ next' = next /\ last' = last
      /\ Ran("grade") => next' \in { "advance", "repeat" }
      /\ run = "failed" => (last' = last /\ st' = st) ]_vars

\* C25 witness: the run has failed at Grade on a submitted assignment:
\* nothing of the grading is stored and Grade is still the node to run
C25_Witness ==
  /\ run = "failed" /\ next = "grade" /\ last = "assignment"
  /\ st.assignment_submission # <<>>
  /\ st.grading_result = None
  /\ st.attempt_count = 1

\* a submission that is empty or whitespace only
BlankSubmission(submission) == submission = <<>> \/ Strip(submission) = <<>>

\* C23 (as claimed): whenever Grade completes on a stored submission that is
\* empty or whitespace only, assignment_score becomes 0, weak_points becomes
\* the full key-concept list of the current lesson, and no grading result is
\* stored: neither the grading collaborator nor a submission produced by the
\* submission extractor is used, whatever messages the state holds.
C23_BlankSubmissionScoresZero ==
  [][ (Ran("grade") /\ BlankSubmission(st.assignment_submission)) =>
        /\ st'.assignment_score = 0
        /\ st'.weak_points =
             st.learning_plan[1].lessons[st.current_lesson_idx + 1].key_concepts
        /\ st'.grading_result = st.grading_result ]_vars

\* Grade turns to the submission extractor: nothing is stored as submission
\* and the state holds a human message
ParsesSubmission(state) ==
  /\ state.assignment_submission = <<>>
  /\ human_messages(state.messages) # <<>>

\* the outcome of Grade on a blank submission
BlankOutcome ==
  /\ st'.assignment_score = 0
  /\ st'.weak_points =
       st.learning_plan[1].lessons[st.current_lesson_idx + 1].key_concepts
  /\ st'.grading_result = st.grading_result

\* the outcome of Grade on a submission handed to the grading collaborator
GradedOutcome ==
  /\ st'.grading_result # None
  /\ st'.assignment_score = st'.grading_result[1].score \div ScoreScale
  /\ st'.weak_points = st'.grading_result[1].weak_points

\* C23 (amended): whenever Grade completes on a stored submission that is
\* whitespace only, or empty while the state holds no human message, the
\* outcome is score 0, the full key-concept list and no grading result; on an
\* empty stored submission in a state with a human message the text
\* extracted from that message is graded in its place: blank outcome or
\* graded outcome.
C23_BlankSubmissionUnlessParsed ==
  [][ (Ran("grade") /\ BlankSubmission(st.assignment_submission)) =>
        IF ParsesSubmission(st)
        THEN BlankOutcome \/ GradedOutcome
        ELSE BlankOutcome ]_vars

\* C23 witness: Grade has run on a stored whitespace-only submission in a
\* state with a human message and stored score 0 and the two key concepts
C23_Witness ==
  /\ last = "grade"
  /\ st.assignment_submission = <<" ">>
  /\ human_messages(st.messages) # <<>>
  /\ st.assignment_score = 0
  /\ st.grading_result = None
  /\ Len(st.weak_points) = 2
  /\ st.weak_points =
       st.learning_plan[1].lessons[st.current_lesson_idx + 1].key_concepts

\* the weak points a quiz pass can derive from the quiz of the state
QuizWeakPoints(state) ==
  IF state.quiz_results = None THEN {}
  ELSE { LET text == state.quiz_results[1].questions[i].question
         IN  SubSeq(text, 1, IF Len(text) < WeakPointChars
                             THEN Len(text) ELSE WeakPointChars) :
           i \in 1..Len(state.quiz_results[1].questions) }

\* C27 (as claimed): after every execution of ProcessQuiz, also one without
\* answers, each entry of weak_points comes from a question of the quiz that
\* was processed; after every execution of Grade weak_points is the key-concept
\* list of the lesson or the list of the grading result stored by that pass:
\* no value of an earlier pass is carried along.
C27_WeakPointsRecomputed ==
  [][ /\ Ran("process_quiz") =>
           \A i \in 1..Len(st'.weak_points) :
             st'.weak_points[i] \in QuizWeakPoints(st)
      /\ Ran("grade") =>
           \/ st'.weak_points =
                st.learning_plan[1].lessons[st.current_lesson_idx + 1]
                  .key_concepts
           \/ /\ st'.grading_result # None
              /\ st'.weak_points = st'.grading_result[1].weak_points ]_vars

\* C28 (as claimed): completed is monotone: once it is true in the stored
\* state of the session it is true in every later state.
C28_CompletedMonotone == [][ st.completed => st'.completed ]_vars

\* C29 (as claimed): topic and background, once non-empty in the stored
\* state, are not changed by any later step, and learning_plan, once set, is
\* not changed or regenerated.
C29_TopicBackgroundPlanImmutable ==
  [][ /\ st.topic # <<>> => st'.topic = st.topic
      /\ st.background # <<>> => st'.background = st.background
      /\ st.learning_plan # None => st'.learning_plan = st.learning_plan ]_vars

\* the artifact the node requires is absent from the state
ArtifactAbsent(node, state) ==
  CASE node \in { "check_progress", "lecture", "assignment", "advance",
                  "repeat" } -> state.learning_plan = None
    [] node = "quiz" -> state.lecture_content = None
    [] node = "process_quiz" -> state.quiz_results = None
    [] node = "grade" -> state.assignment = None
    [] OTHER -> FALSE

\* C30 (as claimed): a lesson node that runs while the artifact it requires
\* is absent fails: the run has failed, nothing is written to the state and
\* the node to run next is not moved on.
C30_AbsentArtifactFails ==
  [][ (run = "running" /\ dpc = "stream" /\ ArtifactAbsent(next, st)) =>
        /\ run' = "failed"
        /\ st' = st
        /\ next' = next /\ last' = last ]_vars

\* a score field holds an integer percentage
Percent == 0..100

\* C31: whenever Grade completes and the advance/repeat decision is asked
\* for, quiz_score and assignment_score are integers in 0..100, ProcessQuiz
\* has run in the current lesson pass, and quiz_score is as ProcessQuiz left
\* it; quiz_score is written only by ProcessQuiz and assignment_score only by
\* Grade (and by the first run's input, which sets both to 0), so neither is
\* left from an earlier lesson or attempt.
C31_ScoresOfCurrentPass ==
  [][ /\ Ran("grade") =>
           /\ st'.quiz_score \in Percent
           /\ st'.assignment_score \in Percent
           /\ st'.quiz_score = st.quiz_score
           /\ \E i \in 1..Len(pass) : pass[i] = "process_quiz"
           /\ pass' = LessonNodes
      /\ st'.quiz_score # st.quiz_score =>
           \/ Ran("process_quiz")
           \/ (dpc = "loop" /\ is_first_run /\ st'.quiz_score = 0)
      /\ st'.assignment_score # st.assignment_score =>
           \/ Ran("grade")
           \/ (dpc = "loop" /\ is_first_run /\ st'.assignment_score = 0)
    ]_vars

\* C31 witness: the decision after the second pass of a lesson: the first
\* pass was graded too, this one 72 (from 72.5) with a quiz score of 80
C31_Witness ==
  /\ last = "grade" /\ st.attempt_count = 1
  /\ st.grading_result # None
  /\ st.grading_result[1].score = 725
  /\ st.assignment_score = 72
  /\ st.quiz_score = 80

\* C32: attempt_count counts the Repeat transitions of the current lesson:
\* Repeat adds one to it whatever its value, also at and above the schema's
\* cap of 3, Advance and plan generation set it to 0 and nothing else
\* changes it (the first run's input writes 0); and a decision repeat is
\* followed by Repeat at every attempt count, never by a forced Advance.
C32_AttemptCountCountsRepeats ==
  [][ /\ Ran("repeat") => st'.attempt_count = st.attempt_count + 1
      /\ Ran("advance") => st'.attempt_count = 0
      /\ Ran("generate_plan") => st'.attempt_count = 0
      /\ st'.attempt_count # st.attempt_count =>
           \/ Ran("repeat") \/ Ran("advance") \/ Ran("generate_plan")
           \/ (dpc = "loop" /\ is_first_run /\ st'.attempt_count = 0)
      /\ (Ready("grade") /\ ~Raises("grade", st) /\ GradeStep("repeat")) =>
           next' = "repeat"
      /\ (Ran("grade") /\ next' = "advance") =>
           (Ready("grade") /\ GradeStep("advance")) ]_vars

\* C32 witness: Repeat has run on an attempt count equal to the cap and the
\* count has passed it
C32_Witness ==
  /\ last = "repeat"
  /\ st.attempt_count = AttemptCap + 1
  /\ st.current_lesson_idx = 0

\* C33 (as claimed): the driver resumes an interrupted run only after the
\* input named by input_type has been collected and patched into the stored
\* state: waiting_for_input has been set back, the quiz pause has its
\* quiz_answers and the assignment pause its assignment_submission.
C33_ResumeOnlyAfterInput ==
  [][ (dpc = "loop" /\ dpc' = "stream" /\ run = "interrupted") =>
        /\ ~st.waiting_for_input
        /\ st.input_type = "quiz" => st.quiz_answers # None
        /\ st.input_type = "assignment" => st.assignment_submission # <<>>
    ]_vars

\* the learner's new request is in the state: as the query, or as the last
\* human message
NewRequestSupplied(state) ==
  \/ state.query = S_new_text
  \/ \E i \in 1..Len(state.messages) :
       /\ state.messages[i] = HumanMessage(S_new_text)
       /\ \A j \in (i + 1)..Len(state.messages) :
            state.messages[j].type # "human"

\* C34 (as claimed): when Extract runs after RequestNewQuery on a state that
\* holds the learner's new request, the query it extracts from, which it
\* stores as query, is the new request.
C34_ExtractUsesNewInput ==
  [][ (Ran("extract") /\ last = "request_new_query"
         /\ NewRequestSupplied(st)) =>
        st'.query = S_new_text ]_vars

\* C35: in every reachable state quiz_results set implies lecture_content
\* set, assignment set implies quiz_results set, grading_result set implies
\* assignment set, and all four are absent whenever Lecture is the node about
\* to run.
C35_ArtifactsNested ==
  /\ st.quiz_results # None => st.lecture_content # None
  /\ st.assignment # None => st.quiz_results # None
  /\ st.grading_result # None => st.assignment # None
  /\ (next = "lecture" /\ run = "running") =>
       /\ st.lecture_content = None
       /\ st.quiz_results = None
       /\ st.assignment = None
       /\ st.grading_result = None

\* C35 witness: Lecture is about to run on the second lesson, after a lesson
\* whose four artifacts were all set has been advanced over
C35_Witness ==
  /\ next = "lecture" /\ run = "running"
  /\ st.current_lesson_idx = 1
  /\ st.assignment_score = 72
  /\ st.lecture_content = None

\* the nodes that read learning_plan.lessons[current_lesson_idx]
IndexingNodes == { "lecture", "quiz", "assignment", "grade", "advance",
                   "repeat" }

\* C36 (as claimed): whenever the stream is about to execute one of the
\* nodes that index the plan, current_lesson_idx is below the number of
\* lessons of the plan.
C36_NoNodeIndexesOutOfRange ==
  (run = "running" /\ dpc = "stream" /\ next \in IndexingNodes) =>
    /\ st.learning_plan # None
    /\ st.current_lesson_idx < Len(st.learning_plan[1].lessons)

\* C37: whenever the stream is about to execute Quiz, quiz_answers is
\* absent, and whenever it is about to execute Assignment,
\* assignment_submission is empty: what ProcessQuiz and Grade read was
\* stored after the quiz or the assignment was generated.
C37_NoInputLeftOver ==
  /\ Ready("quiz") => st.quiz_answers = None
  /\ Ready("assignment") => st.assignment_submission = <<>>

\* C37 witness: Assignment is about to run in the second attempt of a
\* lesson, whose first attempt had a submission graded
C37_Witness ==
  /\ Ready("assignment")
  /\ st.attempt_count = 1
  /\ st.assignment_score > 0
  /\ st.quiz_answers # None
  /\ st.assignment_submission = <<>>

\* C38: under the fair schedule in which the extraction succeeds, no
\* collaborator call fails, every pause is answered and every lesson is
\* advanced in the end, a session whose extraction has run reaches
\* completed = true with current_lesson_idx equal to the number of lessons;
\* current_lesson_idx starts at 0 and changes only in Advance, by one, so that
\* state is reached after exactly len(lessons) Advance transitions.
C38_ProgressToCompletion ==
  /\ (last = "extract") ~>
       (/\ st.completed
        /\ st.learning_plan # None
        /\ st.current_lesson_idx = Len(st.learning_plan[1].lessons))
  /\ [][ st'.current_lesson_idx # st.current_lesson_idx =>
           /\ Ran("advance")
           /\ st'.current_lesson_idx = st.current_lesson_idx + 1 ]_vars

\* C38 witness: CheckProgress has just set completed on a plan of five
\* lessons, the last of which was advanced over at its first attempt
C38_Witness ==
  /\ last = "check_progress"
  /\ st.completed
  /\ st.learning_plan # None
  /\ st.current_lesson_idx = Len(st.learning_plan[1].lessons)
  /\ st.attempt_count = 0
  /\ run = "running"

\* C39: Repeat runs right after Grade and leaves the weak_points Grade
\* wrote as they are, and the Lecture that follows it hands create_lecture
\* exactly that list (none when it is empty); Advance empties weak_points,
\* CheckProgress leaves them alone, and the Lecture that follows
\* CheckProgress, after an Advance or the plan generation, gets none.
C39_WeakPointHandOver ==
  [][ /\ Ran("repeat") =>
           (last = "grade" /\ st'.weak_points = st.weak_points)
      /\ Ran("advance") => st'.weak_points = <<>>
      /\ Ran("check_progress") => st'.weak_points = st.weak_points
      /\ Ran("lecture") =>
           /\ st'.lecture_content # None
           /\ IF last = "repeat"
              THEN st'.lecture_content[1].weak_points =
                     IF st.weak_points = <<>> THEN <<>>
                     ELSE <<st.weak_points>>
              ELSE /\ last = "check_progress"
                   /\ st'.lecture_content[1].weak_points = <<>>
    ]_vars

\* C39 witness: the lecture of a second attempt was generated with the four
\* weak points the Grade of the first attempt wrote
C39_Witness ==
  /\ last = "lecture"
  /\ st.attempt_count = 1
  /\ st.lecture_content # None
  /\ st.lecture_content[1].weak_points # <<>>
  /\ Len(st.lecture_content[1].weak_points[1]) = 4
  /\ st.weak_points = st.lecture_content[1].weak_points[1]

====
